---- MODULE Spec2Model ----
(***************************************************************************)
(* Model of cache/config_file.go: FileCache, the loading cache of config   *)
(* file releases (Put / Get / GetOrLoadIfAbsent / Remove), its per-file    *)
(* load locks, the expiry sweeper and the package-level counters.          *)
(*                                                                         *)
(* Every access to a sync.Map, a sync.Mutex, a package-level counter or    *)
(* the storage is one step of the calling goroutine, so that the steps of  *)
(* concurrent callers and of the sweeper interleave as the Go scheduler    *)
(* lets them.  A string is a sequence of one-character strings.            *)
(***************************************************************************)
EXTENDS Integers, Sequences, FiniteSets, TLC

(***************************************************************************)
(* Bounds of the model.                                                    *)
(***************************************************************************)
MaxOps == 2          \* calls begun in one behaviour of Spec
MaxLoads == 2        \* calls begun in one behaviour of SpecLoad
MaxPuts == 2         \* calls begun in one behaviour of SpecPut
MaxVersion == 1      \* release versions are 0..MaxVersion
MaxTime == 4199      \* the clock stops advancing here (seconds)
MaxKeyOps == 2       \* calls begun in one behaviour of SpecKey
MaxPartLen == 1      \* longest namespace, group or file name of SpecKey

(***************************************************************************)
(* Program constants.                                                      *)
(***************************************************************************)
BaseExpireTimeAfterWrite == 3600
JitterRange == 600
TickInterval == 60
FileIdSeparator == <<"+">>

(***************************************************************************)
(* Inputs.                                                                 *)
(***************************************************************************)
Procs == {"p1", "p2", "p3"}
MainProcs == {"p1", "p2"}               \* the callers of the full specification
Namespaces == {<<"n">>}
Groups == {<<"g">>}
FileNames == {<<"x">>, <<"y">>}
Contents == {"a", "b"}
Versions == 0..MaxVersion
Jitters == {0, JitterRange - 1}           \* results of rand.Intn(10*60)
\* the clock moves to the last expiry time an entry written before can have
TimeSteps == {BaseExpireTimeAfterWrite + JitterRange - 1}

Md5Of(content) == "md5-" \o content

\* the parts joined without the separator: namespace + group + fileName
GenFileIdNoSeparator(namespace, group, fileName) == namespace \o group \o fileName

\* GenFileId: namespace + "+" + group + "+" + fileName
GenFileId(namespace, group, fileName) ==
    namespace \o FileIdSeparator \o group \o FileIdSeparator \o fileName

Idents == Namespaces \X Groups \X FileNames
FileIds == {GenFileId(i[1], i[2], i[3]) : i \in Idents}

\* model.ConfigFileRelease values handed to Put or returned by the storage
Releases ==
    [Namespace : Namespaces, Group : Groups, FileName : FileNames,
     Content : Contents, Md5 : {Md5Of(c) : c \in Contents}, Version : Versions]
FileReleases == {f \in Releases : f.Md5 = Md5Of(f.Content)}

\* the strings a caller may pass as namespace, group or file name: any string,
\* the empty one and those that hold the separator included
KeyAlphabet == {"a", FileIdSeparator[1]}
KeyParts == UNION {[1..n -> KeyAlphabet] : n \in 0..MaxPartLen}
KeyReleases ==
    [Namespace : KeyParts, Group : KeyParts, FileName : KeyParts,
     Content : {"a"}, Md5 : {Md5Of("a")}, Version : {0}]

\* what storage.GetConfigFileRelease(namespace, group, fileName) can return:
\* (file, nil), (nil, nil) or (nil, err); a pointer is a sequence of length <= 1
StorageOutcomes(namespace, group, fileName) ==
    {[file |-> <<f>>, err |-> FALSE] :
        f \in {g \in FileReleases : /\ g.Namespace = namespace
                                    /\ g.Group = group
                                    /\ g.FileName = fileName}}
    \cup {[file |-> <<>>, err |-> FALSE], [file |-> <<>>, err |-> TRUE]}

(***************************************************************************)
(* State.                                                                  *)
(***************************************************************************)
VARIABLES
    files,              \* FileCache.files: fileId -> *Entry (a function on the stored keys)
    fileLoadLocks,      \* FileCache.fileLoadLocks: fileId -> *sync.Mutex
    locked,             \* the mutexes that are locked
    putCnt, loadCnt, getCnt, removeCnt, expireCnt,
    now,                \* time.Now(), in seconds
    tickPending,        \* a tick waits in the sweeper's ticker channel
    pc,                 \* where each caller is
    fileId,             \* caller's local fileId
    file,               \* Put's argument / the storage's result file (a pointer)
    loadErr,            \* the storage's result err
    tmp,                \* the counter value read by an increment in progress
    storedEntry,        \* caller's local storedEntry, ok (a pointer)
    loadLock,           \* caller's local loadLock (a pointer)
    ret,                \* what the caller's last call returned
    spc,                \* where the sweeper is
    toVisit,            \* keys files.Range has not passed yet
    curKey,             \* key of the Range callback in progress
    curExpiredFileCnt,  \* sweeper's local curExpiredFileCnt
    nOps,               \* history: calls begun
    storageCalls,       \* history: storage invocations per fileId
    storageErrs,        \* history: storage invocations per fileId that failed
    submitted,          \* history: versions handed to Put per fileId
    tickLog             \* history: what an undisturbed sweeper tick has seen

cacheVars == <<files, fileLoadLocks, locked>>
cntVars == <<putCnt, loadCnt, getCnt, removeCnt, expireCnt>>
timeVars == <<now, tickPending>>
callerVars == <<pc, fileId, file, loadErr, tmp, storedEntry, loadLock, ret>>
sweepVars == <<spc, toVisit, curKey, curExpiredFileCnt>>
histVars == <<nOps, storageCalls, storageErrs, submitted>>
vars == <<cacheVars, cntVars, timeVars, callerVars, sweepVars, histVars, tickLog>>

(***************************************************************************)
(* sync.Map and pointers.                                                  *)
(***************************************************************************)
Nil == <<>>
EmptyMap == [k \in {} |-> Nil]

\* a Load that does not find a value whose ExpireTime has passed
LoadUnexpired(m, key) ==
    IF key \in DOMAIN m /\ ~(now > m[key].ExpireTime) THEN <<m[key]>> ELSE Nil

\* sync.Map.Load: (value, ok) as a pointer, Nil when the key is not stored
Load(m, key) == IF key \in DOMAIN m THEN <<m[key]>> ELSE Nil

Store(m, key, value) ==
    [k \in DOMAIN m \cup {key} |-> IF k = key THEN value ELSE m[k]]

\* a Delete that empties the map
DeleteAll(m, key) == [k \in {} |-> m[k]]

Delete(m, key) == [k \in DOMAIN m \ {key} |-> m[k]]

\* a LoadOrStore that stores value whatever is stored (a plain Store)
LoadOrStoreAlwaysStores(m, key, value) ==
    [actual |-> value, map |-> [k \in DOMAIN m \cup {key} |-> IF k = key THEN value ELSE m[k]]]

\* sync.Map.LoadOrStore: the stored value when there is one, else value is stored
LoadOrStore(m, key, value) ==
    IF key \in DOMAIN m
    THEN [actual |-> m[key], map |-> m]
    ELSE [actual |-> value, map |-> Store(m, key, value)]

\* new(sync.Mutex) in caller p's call for fileId id
NewMutex(id, p) == <<id, p>>

(***************************************************************************)
(* Entries.                                                                *)
(***************************************************************************)
\* an expiry time without the base: time.Now() + rand.Intn(10*60) s
getExpireTimeNoBase(t, randTime) == t + randTime

\* getExpireTime: time.Now() + (rand.Intn(10*60) + BaseExpireTimeAfterWrite) s
getExpireTime(t, randTime) == t + (randTime + BaseExpireTimeAfterWrite)

newEntry(content, md5, version, t, randTime) ==
    [Content |-> content, Md5 |-> md5, Version |-> version,
     ExpireTime |-> getExpireTime(t, randTime), Empty |-> FALSE]

\* the empty object without its Empty mark
emptyEntryUnmarked(t, randTime) ==
    [Content |-> "", Md5 |-> "", Version |-> 0,
     ExpireTime |-> t + (randTime + BaseExpireTimeAfterWrite), Empty |-> FALSE]

\* the empty object cached when the storage has no such file
emptyEntry(t, randTime) ==
    [Content |-> "", Md5 |-> "", Version |-> 0,
     ExpireTime |-> getExpireTime(t, randTime), Empty |-> TRUE]

\* the test with >= for >: an equal version is stored again
PutAcceptsEqual(stored, f) ==
    \/ stored = Nil
    \/ stored[1].Empty
    \/ f.Version >= stored[1].Version

\* the test without the empty case: only a greater version replaces any entry
PutAcceptsNoEmpty(stored, f) ==
    \/ stored = Nil
    \/ f.Version > stored[1].Version

\* Put's test: !ok || storedEntry.Empty || file.Version > storedEntry.Version
PutAccepts(stored, f) ==
    \/ stored = Nil
    \/ stored[1].Empty
    \/ f.Version > stored[1].Version

\* the test with "not before": an entry expires at its ExpireTime already
ExpiredNotBefore(t, e) == t >= e.ExpireTime

\* the sweeper's test: time.Now().After(entry.ExpireTime)
Expired(t, e) == t > e.ExpireTime

\* what a caller knows of its last call: the call, its fileId, Put's argument,
\* and what was returned: (entry, err); Put and Remove return nothing
NoRet == [op |-> "none", fileId |-> Nil, file |-> Nil, entry |-> Nil, err |-> FALSE]
Ret(op, id, e, err) == [op |-> op, fileId |-> id, file |-> Nil, entry |-> e, err |-> err]
RetPut(id, f) == [op |-> "Put", fileId |-> id, file |-> f, entry |-> Nil, err |-> FALSE]

NoTickLog == [alone |-> FALSE, start |-> EmptyMap, seenAt |-> EmptyMap, cnt0 |-> 0]

Init ==
    /\ files = EmptyMap
    /\ fileLoadLocks = EmptyMap
    /\ locked = {}
    /\ putCnt = 0 /\ loadCnt = 0 /\ getCnt = 0 /\ removeCnt = 0 /\ expireCnt = 0
    /\ now = 0
    /\ tickPending = FALSE
    /\ pc = [p \in Procs |-> "idle"]
    /\ fileId = [p \in Procs |-> Nil]
    /\ file = [p \in Procs |-> Nil]
    /\ loadErr = [p \in Procs |-> FALSE]
    /\ tmp = [p \in Procs |-> 0]
    /\ storedEntry = [p \in Procs |-> Nil]
    /\ loadLock = [p \in Procs |-> Nil]
    /\ ret = [p \in Procs |-> NoRet]
    /\ spc = "idle"
    /\ toVisit = {}
    /\ curKey = Nil
    /\ curExpiredFileCnt = 0
    /\ nOps = 0
    /\ storageCalls = [k \in FileIds |-> 0]
    /\ storageErrs = [k \in FileIds |-> 0]
    /\ submitted = [k \in FileIds |-> {}]
    /\ tickLog = NoTickLog

(***************************************************************************)
(* Callers.  A caller that returns forgets its locals.                     *)
(***************************************************************************)
Return(p, r) ==
    /\ pc' = [pc EXCEPT ![p] = "idle"]
    /\ ret' = [ret EXCEPT ![p] = r]
    /\ fileId' = [fileId EXCEPT ![p] = Nil]
    /\ file' = [file EXCEPT ![p] = Nil]
    /\ loadErr' = [loadErr EXCEPT ![p] = FALSE]
    /\ tmp' = [tmp EXCEPT ![p] = 0]
    /\ storedEntry' = [storedEntry EXCEPT ![p] = Nil]
    /\ loadLock' = [loadLock EXCEPT ![p] = Nil]

Begin(p, id, first) ==
    /\ pc[p] = "idle"
    /\ nOps' = nOps + 1
    /\ pc' = [pc EXCEPT ![p] = first]
    /\ fileId' = [fileId EXCEPT ![p] = id]
    /\ ret' = [ret EXCEPT ![p] = NoRet]
    /\ tickLog' = NoTickLog

Goto(p, next) == pc' = [pc EXCEPT ![p] = next]

\* a Get that finds nothing, whatever is stored
GetFindsNothing(m, namespace, group, fileName) == <<>>

\* Get(namespace, group, fileName): the stored entry and ok
Get(m, namespace, group, fileName) == Load(m, GenFileId(namespace, group, fileName))

---------------------------------------------------------------------------
(***************************************************************************)
(* An increment cnt++ of a package-level counter is not atomic: it reads   *)
(* the counter (into tmp) and later writes tmp + 1.  The read is taken     *)
(* with the step before it and the write with the step after it: a counter *)
(* access commutes with every step of another goroutine that is not an     *)
(* access to the same counter, so every interleaving of the separate       *)
(* accesses has the same effect as one of these.                           *)
(***************************************************************************)
\* Put(file) is called; putCnt++ reads putCnt
\* (submitted is left to the specification: a history of the versions put)
PutBegin(p, f) ==
    /\ Begin(p, GenFileId(f.Namespace, f.Group, f.FileName), "put_get")
    /\ file' = [file EXCEPT ![p] = <<f>>]
    /\ tmp' = [tmp EXCEPT ![p] = putCnt]
    /\ UNCHANGED <<cacheVars, cntVars, timeVars, sweepVars>>
    /\ UNCHANGED <<loadErr, storedEntry, loadLock, storageCalls, storageErrs>>

\* putCnt++ writes; storedEntry, ok := fc.Get(file.Namespace, file.Group, file.FileName)
PutGet(p) ==
    /\ pc[p] = "put_get"
    /\ putCnt' = tmp[p] + 1
    /\ tmp' = [tmp EXCEPT ![p] = 0]
    /\ storedEntry' = [storedEntry EXCEPT
                          ![p] = Get(files, file[p][1].Namespace, file[p][1].Group,
                                     file[p][1].FileName)]
    /\ Goto(p, "put_store")
    /\ tickLog' = NoTickLog
    /\ UNCHANGED <<cacheVars, loadCnt, getCnt, removeCnt, expireCnt, timeVars, sweepVars>>
    /\ UNCHANGED <<histVars, fileId, file, loadErr, loadLock, ret>>

\* if the test accepts: fc.files.Store(fileId, newEntry(...)); return
PutStore(p, randTime) ==
    /\ pc[p] = "put_store"
    /\ files' = IF PutAccepts(storedEntry[p], file[p][1])
                THEN Store(files, fileId[p],
                           newEntry(file[p][1].Content, file[p][1].Md5,
                                    file[p][1].Version, now, randTime))
                ELSE files
    /\ Return(p, RetPut(fileId[p], file[p]))
    /\ tickLog' = NoTickLog
    /\ UNCHANGED <<fileLoadLocks, locked, cntVars, timeVars, sweepVars, histVars>>

---------------------------------------------------------------------------
\* a caller's Get(namespace, group, fileName)
GetCall(p, namespace, group, fileName) ==
    /\ pc[p] = "idle"
    /\ nOps' = nOps + 1
    /\ ret' = [ret EXCEPT ![p] = Ret("Get", GenFileId(namespace, group, fileName),
                                     Get(files, namespace, group, fileName), FALSE)]
    /\ tickLog' = NoTickLog
    /\ UNCHANGED <<cacheVars, cntVars, timeVars, sweepVars>>
    /\ UNCHANGED <<pc, fileId, file, loadErr, tmp, storedEntry, loadLock>>
    /\ UNCHANGED <<storageCalls, storageErrs, submitted>>

---------------------------------------------------------------------------
\* Remove(namespace, group, fileName) is called; removeCnt++ reads removeCnt
RemoveBegin(p, namespace, group, fileName) ==
    /\ Begin(p, GenFileId(namespace, group, fileName), "remove_delete")
    /\ tmp' = [tmp EXCEPT ![p] = removeCnt]
    /\ UNCHANGED <<cacheVars, cntVars, timeVars, sweepVars>>
    /\ UNCHANGED <<file, loadErr, storedEntry, loadLock>>
    /\ UNCHANGED <<storageCalls, storageErrs, submitted>>

\* removeCnt++ writes; fc.files.Delete(fileId); return
RemoveDelete(p) ==
    /\ pc[p] = "remove_delete"
    /\ removeCnt' = tmp[p] + 1
    /\ files' = Delete(files, fileId[p])
    /\ Return(p, Ret("Remove", fileId[p], Nil, FALSE))
    /\ tickLog' = NoTickLog
    /\ UNCHANGED <<fileLoadLocks, locked, putCnt, loadCnt, getCnt, expireCnt>>
    /\ UNCHANGED <<timeVars, sweepVars, histVars>>

---------------------------------------------------------------------------
\* one load lock for all files
LockKeyGlobal(id) == <<>>

\* the key under which GetOrLoadIfAbsent registers the load lock of fileId id
LockKey(id) == id

\* no double check: the caller goes on to load whatever is stored by now
DoubleCheckSkipped(m, id) == <<>>

\* the double check under the lock: storedEntry, ok = fc.files.Load(fileId)
DoubleCheck(m, id) == Load(m, id)

\* the error is not looked at: a failed call goes on as one that found no file
ReturnsErrorIgnored(err) == FALSE

\* if err != nil { return nil, err }
ReturnsError(err) == err

\* GetOrLoadIfAbsent(namespace, group, fileName) is called; getCnt++ reads getCnt
GloBegin(p, namespace, group, fileName) ==
    /\ Begin(p, GenFileId(namespace, group, fileName), "glo_load")
    /\ tmp' = [tmp EXCEPT ![p] = getCnt]
    /\ UNCHANGED <<cacheVars, cntVars, timeVars, sweepVars>>
    /\ UNCHANGED <<file, loadErr, storedEntry, loadLock>>
    /\ UNCHANGED <<storageCalls, storageErrs, submitted>>

\* the first lookup's result is not used: the call goes on to the lock
GloLoadNoFastPath(p) ==
    /\ pc[p] = "glo_load"
    /\ getCnt' = tmp[p] + 1
    /\ Goto(p, "glo_lockobj")
    /\ tmp' = [tmp EXCEPT ![p] = 0]
    /\ tickLog' = NoTickLog
    /\ UNCHANGED <<fileId, file, loadErr, storedEntry, loadLock, ret>>
    /\ UNCHANGED <<cacheVars, putCnt, loadCnt, removeCnt, expireCnt, timeVars, sweepVars>>
    /\ UNCHANGED histVars

\* getCnt++ writes; storedEntry, ok := fc.files.Load(fileId); if ok { return entry, nil }
GloLoad(p) ==
    /\ pc[p] = "glo_load"
    /\ getCnt' = tmp[p] + 1
    /\ IF Load(files, fileId[p]) # Nil
       THEN Return(p, Ret("GetOrLoadIfAbsent", fileId[p], Load(files, fileId[p]), FALSE))
       ELSE /\ Goto(p, "glo_lockobj")
            /\ tmp' = [tmp EXCEPT ![p] = 0]
            /\ UNCHANGED <<fileId, file, loadErr, storedEntry, loadLock, ret>>
    /\ tickLog' = NoTickLog
    /\ UNCHANGED <<cacheVars, putCnt, loadCnt, removeCnt, expireCnt, timeVars, sweepVars>>
    /\ UNCHANGED histVars

\* lockObj, _ := fc.fileLoadLocks.LoadOrStore(fileId, new(sync.Mutex))
GloLockObj(p) ==
    /\ pc[p] = "glo_lockobj"
    /\ LET r == LoadOrStore(fileLoadLocks, LockKey(fileId[p]), NewMutex(fileId[p], p))
       IN /\ fileLoadLocks' = r.map
          /\ loadLock' = [loadLock EXCEPT ![p] = <<r.actual>>]
    /\ Goto(p, "glo_lock")
    /\ tickLog' = NoTickLog
    /\ UNCHANGED <<files, locked, cntVars, timeVars, sweepVars, histVars>>
    /\ UNCHANGED <<fileId, file, loadErr, tmp, storedEntry, ret>>

\* loadLock.Lock(): waits until the mutex is unlocked
GloLock(p) ==
    /\ pc[p] = "glo_lock"
    /\ loadLock[p][1] \notin locked
    /\ locked' = locked \cup {loadLock[p][1]}
    /\ Goto(p, "glo_check")
    /\ tickLog' = NoTickLog
    /\ UNCHANGED <<files, fileLoadLocks, cntVars, timeVars, sweepVars, histVars>>
    /\ UNCHANGED <<fileId, file, loadErr, tmp, storedEntry, loadLock, ret>>

\* double check: on a hit the entry is returned (through the deferred Unlock);
\* on a miss loadCnt++ reads loadCnt
GloCheck(p) ==
    /\ pc[p] = "glo_check"
    /\ storedEntry' = [storedEntry EXCEPT ![p] = DoubleCheck(files, fileId[p])]
    /\ IF DoubleCheck(files, fileId[p]) # Nil
       THEN Goto(p, "glo_unlock") /\ UNCHANGED tmp
       ELSE Goto(p, "glo_call") /\ tmp' = [tmp EXCEPT ![p] = loadCnt]
    /\ tickLog' = NoTickLog
    /\ UNCHANGED <<cacheVars, cntVars, timeVars, sweepVars, histVars>>
    /\ UNCHANGED <<fileId, file, loadErr, loadLock, ret>>

\* loadCnt++ writes, and fc.storage.GetConfigFileRelease is called
\* (storageCalls is left to the specification: a history of these calls)
GloCall(p) ==
    /\ pc[p] = "glo_call"
    /\ loadCnt' = tmp[p] + 1
    /\ tmp' = [tmp EXCEPT ![p] = 0]
    /\ Goto(p, "glo_inflight")
    /\ tickLog' = NoTickLog
    /\ UNCHANGED <<cacheVars, putCnt, getCnt, removeCnt, expireCnt, timeVars, sweepVars>>
    /\ UNCHANGED <<nOps, storageErrs, submitted>>
    /\ UNCHANGED <<fileId, file, loadErr, storedEntry, loadLock, ret>>

\* file, err := the storage's answer o; an error is returned (through the Unlock)
\* (storageErrs is left to the specification: a history of the failed calls)
GloStorageReturn(p, namespace, group, fileName, o) ==
    /\ pc[p] = "glo_inflight"
    /\ fileId[p] = GenFileId(namespace, group, fileName)
    /\ o \in StorageOutcomes(namespace, group, fileName)
    /\ file' = [file EXCEPT ![p] = o.file]
    /\ loadErr' = [loadErr EXCEPT ![p] = o.err]
    /\ Goto(p, IF ReturnsError(o.err) THEN "glo_unlock" ELSE "glo_store")
    /\ tickLog' = NoTickLog
    /\ UNCHANGED <<cacheVars, cntVars, timeVars, sweepVars>>
    /\ UNCHANGED <<nOps, storageCalls, submitted>>
    /\ UNCHANGED <<fileId, tmp, storedEntry, loadLock, ret>>

\* the entry built from the answer: newEntry(...) of a file, else the empty object
LoadedEntry(f, t, randTime) ==
    IF f # Nil
    THEN newEntry(f[1].Content, f[1].Md5, f[1].Version, t, randTime)
    ELSE emptyEntry(t, randTime)

\* fc.files.Store(fileId, entry); storedEntry now holds the entry to return
GloStore(p, randTime) ==
    /\ pc[p] = "glo_store"
    /\ files' = Store(files, fileId[p], LoadedEntry(file[p], now, randTime))
    /\ storedEntry' = [storedEntry EXCEPT ![p] = <<LoadedEntry(file[p], now, randTime)>>]
    /\ Goto(p, "glo_unlock")
    /\ tickLog' = NoTickLog
    /\ UNCHANGED <<fileLoadLocks, locked, cntVars, timeVars, sweepVars, histVars>>
    /\ UNCHANGED <<fileId, file, loadErr, tmp, loadLock, ret>>

\* the Unlock also takes the key's mutex out of the registry
GloUnlockForgetsLock(p) ==
    /\ pc[p] = "glo_unlock"
    /\ locked' = locked \ {loadLock[p][1]}
    /\ fileLoadLocks' = Delete(fileLoadLocks, LockKey(fileId[p]))
    /\ Return(p, Ret("GetOrLoadIfAbsent", fileId[p],
                     IF loadErr[p] THEN Nil ELSE storedEntry[p], loadErr[p]))
    /\ tickLog' = NoTickLog
    /\ UNCHANGED <<files, cntVars, timeVars, sweepVars, histVars>>

\* the call returns without the deferred Unlock: the mutex stays locked
GloReturnsLocked(p) ==
    /\ pc[p] = "glo_unlock"
    /\ Return(p, Ret("GetOrLoadIfAbsent", fileId[p],
                     IF loadErr[p] THEN Nil ELSE storedEntry[p], loadErr[p]))
    /\ tickLog' = NoTickLog
    /\ UNCHANGED <<cacheVars, cntVars, timeVars, sweepVars, histVars>>

\* defer loadLock.Unlock(), and the call returns (entry, nil) or (nil, err)
GloUnlock(p) ==
    /\ pc[p] = "glo_unlock"
    /\ locked' = locked \ {loadLock[p][1]}
    /\ Return(p, Ret("GetOrLoadIfAbsent", fileId[p],
                     IF loadErr[p] THEN Nil ELSE storedEntry[p], loadErr[p]))
    /\ tickLog' = NoTickLog
    /\ UNCHANGED <<files, fileLoadLocks, cntVars, timeVars, sweepVars, histVars>>

---------------------------------------------------------------------------
(***************************************************************************)
(* The sweeper (startClearExpireEntryTask) and the clock.                  *)
(***************************************************************************)
\* case <-t.C: a tick is taken from the ticker and files.Range begins
SweepTick ==
    /\ spc = "idle"
    /\ tickPending
    /\ tickPending' = FALSE
    /\ spc' = "range"
    /\ toVisit' = FileIds
    /\ curExpiredFileCnt' = 0
    /\ tickLog' = [alone |-> TRUE, start |-> files, seenAt |-> EmptyMap, cnt0 |-> expireCnt]
    /\ UNCHANGED <<cacheVars, cntVars, now, callerVars, curKey, histVars>>

\* Range passes key k: when it is stored, the callback tests its entry
SweepVisit(k) ==
    /\ spc = "range"
    /\ k \in toVisit
    /\ toVisit' = toVisit \ {k}
    /\ IF k \in DOMAIN files /\ Expired(now, files[k])
       THEN spc' = "delete" /\ curKey' = <<k>>
       ELSE UNCHANGED <<spc, curKey>>
    /\ tickLog' = IF tickLog.alone /\ k \in DOMAIN files
                  THEN [tickLog EXCEPT !.seenAt = Store(@, k, now)]
                  ELSE tickLog
    /\ UNCHANGED <<cacheVars, cntVars, timeVars, callerVars, curExpiredFileCnt, histVars>>

\* fc.files.Delete(fileId); curExpiredFileCnt++
SweepDelete ==
    /\ spc = "delete"
    /\ files' = Delete(files, curKey[1])
    /\ curExpiredFileCnt' = curExpiredFileCnt + 1
    /\ spc' = "range"
    /\ curKey' = Nil
    /\ UNCHANGED <<fileLoadLocks, locked, cntVars, timeVars, callerVars, toVisit, histVars, tickLog>>

\* Range is over: expireCnt += curExpiredFileCnt
SweepEnd ==
    /\ spc = "range"
    /\ toVisit = {}
    /\ expireCnt' = expireCnt + curExpiredFileCnt
    /\ spc' = "idle"
    /\ curExpiredFileCnt' = 0
    /\ tickLog' = NoTickLog
    /\ UNCHANGED <<cacheVars, putCnt, loadCnt, getCnt, removeCnt, timeVars, callerVars>>
    /\ UNCHANGED <<toVisit, curKey, histVars>>

\* d seconds pass; the ticker fires at every full TickInterval
AdvanceTime(d) ==
    /\ now + d <= MaxTime
    /\ now' = now + d
    /\ tickPending' = (tickPending \/ (now + d) \div TickInterval > now \div TickInterval)
    /\ UNCHANGED <<cacheVars, cntVars, callerVars, sweepVars, histVars, tickLog>>

---------------------------------------------------------------------------
(***************************************************************************)
(* Spec: two callers make any calls, the sweeper runs and the clock moves. *)
(***************************************************************************)
Next ==
    \/ \E p \in MainProcs :
        \/ \E f \in FileReleases : nOps < MaxOps /\ PutBegin(p, f) /\ UNCHANGED submitted
        \/ PutGet(p)
        \/ \E r \in Jitters : PutStore(p, r)
        \/ \E i \in Idents : nOps < MaxOps /\ GetCall(p, i[1], i[2], i[3])
        \/ \E i \in Idents : nOps < MaxOps /\ RemoveBegin(p, i[1], i[2], i[3])
        \/ RemoveDelete(p)
        \/ \E i \in Idents : nOps < MaxOps /\ GloBegin(p, i[1], i[2], i[3])
        \/ GloLoad(p)
        \/ GloLockObj(p)
        \/ GloLock(p)
        \/ GloCheck(p)
        \/ GloCall(p) /\ UNCHANGED storageCalls
        \/ \E i \in Idents : \E o \in StorageOutcomes(i[1], i[2], i[3]) :
              GloStorageReturn(p, i[1], i[2], i[3], o) /\ UNCHANGED storageErrs
        \/ \E r \in Jitters : GloStore(p, r)
        \/ GloUnlock(p)
    \/ SweepTick
    \/ \E k \in FileIds : SweepVisit(k)
    \/ SweepDelete
    \/ SweepEnd
    \/ \E d \in TimeSteps : AdvanceTime(d)

Spec == Init /\ [][Next]_vars

(***************************************************************************)
(* SpecLoad: the callers only call GetOrLoadIfAbsent, against a storage    *)
(* whose calls and failures are counted; no Put, Remove or sweeper.        *)
(***************************************************************************)
CountCall(p) == storageCalls' = [storageCalls EXCEPT ![fileId[p]] = @ + 1]

CountErr(p, o) == storageErrs' = [storageErrs EXCEPT ![fileId[p]] = IF o.err THEN @ + 1 ELSE @]

NextLoad ==
    \E p \in Procs :
        \/ \E i \in Idents : nOps < MaxLoads /\ GloBegin(p, i[1], i[2], i[3])
        \/ GloLoad(p)
        \/ GloLockObj(p)
        \/ GloLock(p)
        \/ GloCheck(p)
        \/ GloCall(p) /\ CountCall(p)
        \/ \E i \in Idents : \E o \in StorageOutcomes(i[1], i[2], i[3]) :
              GloStorageReturn(p, i[1], i[2], i[3], o) /\ CountErr(p, o)
        \/ \E r \in Jitters : GloStore(p, r)
        \/ GloUnlock(p)

SpecLoad == Init /\ [][NextLoad]_vars

(***************************************************************************)
(* SpecLoadFair: SpecLoad where a call that has begun keeps running: the   *)
(* scheduler runs every goroutine that can take a step, and every storage  *)
(* call returns.  A caller waiting in Lock() can take no step while the    *)
(* mutex is locked; no fairness is asked of beginning a call.              *)
(***************************************************************************)
LoadStep(p) ==
    \/ GloLoad(p)
    \/ GloLockObj(p)
    \/ GloLock(p)
    \/ GloCheck(p)
    \/ GloCall(p) /\ CountCall(p)
    \/ \E i \in Idents : \E o \in StorageOutcomes(i[1], i[2], i[3]) :
          GloStorageReturn(p, i[1], i[2], i[3], o) /\ CountErr(p, o)
    \/ \E r \in Jitters : GloStore(p, r)
    \/ GloUnlock(p)

SpecLoadFair == SpecLoad /\ \A p \in Procs : WF_vars(LoadStep(p))

(***************************************************************************)
(* SpecPut: the callers only call Put, with versions that differ from one  *)
(* another for each file; the versions put are recorded.                   *)
(***************************************************************************)
PutBeginDistinct(p, f) ==
    /\ f.Version \notin submitted[GenFileId(f.Namespace, f.Group, f.FileName)]
    /\ PutBegin(p, f)
    /\ submitted' = [submitted EXCEPT
                        ![GenFileId(f.Namespace, f.Group, f.FileName)] = @ \cup {f.Version}]

NextPut ==
    \E p \in Procs :
        \/ \E f \in FileReleases : nOps < MaxPuts /\ PutBeginDistinct(p, f)
        \/ PutGet(p)
        \/ \E r \in Jitters : PutStore(p, r)

SpecPut == Init /\ [][NextPut]_vars

(***************************************************************************)
(* SpecKey: the callers call Put with releases of any identity, so that    *)
(* GenFileId is applied to every triple of strings up to MaxPartLen.       *)
(***************************************************************************)
NextKey ==
    \E p \in MainProcs :
        \/ \E f \in KeyReleases : nOps < MaxKeyOps /\ PutBegin(p, f) /\ UNCHANGED submitted
        \/ PutGet(p)
        \/ \E r \in Jitters : PutStore(p, r)

SpecKey == Init /\ [][NextKey]_vars

(***************************************************************************)
(* Properties.                                                             *)
(***************************************************************************)
\* the callers between loadLock.Lock() and loadLock.Unlock() for fileId k
HoldingPcs == {"glo_check", "glo_call", "glo_inflight", "glo_store", "glo_unlock"}
Holders(k) == {p \in Procs : pc[p] \in HoldingPcs /\ fileId[p] = k}
InFlight(k) == {p \in Procs : pc[p] = "glo_inflight" /\ fileId[p] = k}
Returned(p, op, k) == ret[p].op = op /\ ret[p].fileId = k

\* C1 (SpecLoad: concurrent GetOrLoadIfAbsent calls only, nothing removes an
\* entry).  For a key whose storage calls have not failed, the storage is called
\* at most once, and every caller that has returned for the key returned, with
\* no error, the entry that this one call's load stored.
StampedeProtection ==
    \A k \in FileIds :
        storageErrs[k] = 0 =>
            /\ storageCalls[k] <= 1
            /\ \A p \in Procs :
                   Returned(p, "GetOrLoadIfAbsent", k) =>
                       /\ storageCalls[k] = 1
                       /\ ~ret[p].err
                       /\ k \in DOMAIN files
                       /\ ret[p].entry = <<files[k]>>

\* C1 witness: q has returned the loaded entry and p, which missed at its first
\* lookup while the load was under way, has found the same entry at the double
\* check (p's own file is nil and the entry is built from a file); one storage call.
StampedeWitness ==
    \E p, q \in Procs :
        /\ p # q
        /\ pc[p] = "glo_unlock"
        /\ file[p] = Nil /\ ~loadErr[p]
        /\ fileId[p] \in DOMAIN files
        /\ ~files[fileId[p]].Empty
        /\ storedEntry[p] = <<files[fileId[p]]>>
        /\ Returned(q, "GetOrLoadIfAbsent", fileId[p])
        /\ ret[q].entry = storedEntry[p]
        /\ storageCalls[fileId[p]] = 1
        /\ storageErrs[fileId[p]] = 0

\* C2 (Spec).  In every reachable state at most one caller is between the Lock
\* and the Unlock of a key's load lock, so at most one storage call is in flight
\* for the key.
LoadMutualExclusion ==
    \A k \in FileIds : Cardinality(Holders(k)) <= 1

\* C2 witness: a storage call is in flight for a key while another caller of the
\* same key waits for the lock.
LoadMutexWitness ==
    \E p, q \in Procs :
        /\ pc[p] = "glo_inflight"
        /\ pc[q] = "glo_lock"
        /\ fileId[p] = fileId[q]
        /\ loadLock[q][1] \in locked

\* caller p takes the last step of its Put: the test and, if it accepts, the Store
PutReturns(p) == pc[p] = "put_store" /\ pc'[p] = "idle"

\* entry e carries release f: its content, md5 and version, and is not empty
Carries(e, f) ==
    /\ e.Content = f.Content
    /\ e.Md5 = f.Md5
    /\ e.Version = f.Version
    /\ ~e.Empty

\* C3 (Spec).  A Put whose key's entry has not changed between its lookup and its
\* store replaces the entry iff the key has none, or a negative one, or one of a
\* strictly lower version; otherwise the stored entry, ExpireTime included, and
\* the whole map stay as they are.  Put raises no error either way.
PutOverwriteRule ==
    [][\A p \in Procs :
          (PutReturns(p) /\ storedEntry[p] = Load(files, fileId[p])) =>
              LET k == fileId[p]
                  f == file[p][1]
              IN /\ IF \/ k \notin DOMAIN files
                       \/ files[k].Empty
                       \/ f.Version > files[k].Version
                    THEN /\ k \in DOMAIN files'
                         /\ Carries(files'[k], f)
                         /\ files'[k].ExpireTime > now
                    ELSE files' = files
                 /\ ~ret'[p].err]_vars

\* C3 witness: Put(version 1, "b") has returned and the entry of its key still has
\* version 1 and content "a" (put by the other caller).
PutOverwriteWitness ==
    \E p, q \in Procs :
        /\ Returned(p, "Put", ret[q].fileId)
        /\ ret[q].op = "Put"
        /\ ret[p].file[1].Version = 1 /\ ret[p].file[1].Content = "b"
        /\ ret[q].file[1].Version = 1 /\ ret[q].file[1].Content = "a"
        /\ ret[p].fileId \in DOMAIN files
        /\ files[ret[p].fileId].Content = "a"
        /\ putCnt = 2

Max(S) == CHOOSE x \in S : \A y \in S : y <= x

\* C4 (SpecPut: concurrent Put calls only, versions of a key pairwise distinct).
\* Once all the calls have returned, the entry of every key that was put carries
\* the highest version put for it.
HigherVersionWins ==
    (\A p \in Procs : pc[p] = "idle") =>
        \A k \in FileIds :
            submitted[k] # {} =>
                /\ k \in DOMAIN files
                /\ files[k].Version = Max(submitted[k])

\* C7 (Spec).  A Put whose lookup found a negative entry stores a positive entry
\* carrying its release, whatever the release's version, and a Get of the key then
\* returns that entry.
NegativeEntryOverride ==
    [][\A p \in Procs :
          (PutReturns(p) /\ storedEntry[p] # Nil /\ storedEntry[p][1].Empty) =>
              LET k == fileId[p]
                  f == file[p][1]
              IN /\ k \in DOMAIN files'
                 /\ Carries(files'[k], f)
                 /\ Get(files', f.Namespace, f.Group, f.FileName) = <<files'[k]>>]_vars

\* C7 witness: a load has returned the negative entry of a key, a Put of version 0
\* for the key has returned, and the key's entry is positive with version 0.
NegativeOverrideWitness ==
    \E p, q \in Procs :
        /\ ret[q].op = "GetOrLoadIfAbsent"
        /\ ret[q].entry # Nil
        /\ ret[q].entry[1].Empty
        /\ Returned(p, "Put", ret[q].fileId)
        /\ ret[p].file[1].Version = 0
        /\ ret[p].fileId \in DOMAIN files
        /\ Carries(files[ret[p].fileId], ret[p].file[1])

\* C5 (SpecLoad).  A storage error is never cached: the caller whose storage
\* call failed leaves through the Unlock with the key still not stored, it
\* returns (nil, err) and holds no lock afterwards (a locked mutex always has a
\* holder inside its call), a key is stored only if a storage call for it has
\* succeeded, and a caller that finds the key missing at the double check calls
\* the storage, whatever failed before.
StorageErrorsNotCached ==
    /\ [](\A p \in Procs :
            /\ (pc[p] = "glo_unlock" /\ loadErr[p]) => fileId[p] \notin DOMAIN files
            /\ ret[p].err => ret[p].entry = Nil)
    /\ [](\A m \in locked :
            \E p \in Procs : pc[p] \in HoldingPcs /\ loadLock[p] = <<m>>)
    /\ [](\A k \in FileIds :
            storageCalls[k] = storageErrs[k] + Cardinality(InFlight(k)) =>
                k \notin DOMAIN files)
    /\ [][\A p \in Procs :
            /\ (pc[p] = "glo_check" /\ pc'[p] # "glo_check"
                    /\ fileId[p] \notin DOMAIN files) => pc'[p] = "glo_call"
            /\ (pc[p] = "glo_call" /\ pc'[p] # "glo_call") =>
                   /\ pc'[p] = "glo_inflight"
                   /\ storageCalls'[fileId[p]] = storageCalls[fileId[p]] + 1]_vars

\* C5 witness: a caller has returned (nil, err) for a key, the key is not stored,
\* no lock is held, and a later call for the key has called the storage again.
StorageErrorWitness ==
    \E p, q \in Procs :
        /\ Returned(p, "GetOrLoadIfAbsent", fileId[q])
        /\ ret[p].err /\ ret[p].entry = Nil
        /\ pc[q] = "glo_inflight"
        /\ fileId[q] \notin DOMAIN files
        /\ storageErrs[fileId[q]] = 1
        /\ storageCalls[fileId[q]] = 2
        /\ locked = {loadLock[q][1]}

\* C6 (SpecLoad).  The caller whose storage call found no file stores and returns
\* a negative entry (Empty, Content ""); and while a negative entry is stored for
\* a key, exactly one storage call for the key has succeeded, none is under way or
\* about to be made, and every caller that has returned for the key without an
\* error returned that entry.
NegativeEntryShielding ==
    /\ [][\A p \in Procs :
            (pc[p] = "glo_store" /\ pc'[p] # "glo_store" /\ file[p] = Nil) =>
                /\ fileId[p] \in DOMAIN files'
                /\ files'[fileId[p]].Empty
                /\ files'[fileId[p]].Content = ""
                /\ storedEntry'[p] = <<files'[fileId[p]]>>
                /\ ~loadErr'[p]]_vars
    /\ [](\A k \in FileIds :
            (k \in DOMAIN files /\ files[k].Empty) =>
                /\ storageCalls[k] = storageErrs[k] + 1
                /\ \A p \in Procs :
                       /\ fileId[p] = k => pc[p] \notin {"glo_call", "glo_inflight", "glo_store"}
                       /\ (Returned(p, "GetOrLoadIfAbsent", k) /\ ~ret[p].err) =>
                              ret[p].entry = <<files[k]>>)

\* C6 witness: two callers have returned the negative entry of a key after one
\* storage call.
NegativeShieldingWitness ==
    \E p, q \in Procs :
        /\ p # q
        /\ Returned(p, "GetOrLoadIfAbsent", ret[q].fileId)
        /\ ret[q].op = "GetOrLoadIfAbsent"
        /\ ret[p].fileId \in DOMAIN files
        /\ files[ret[p].fileId].Empty
        /\ ret[p].entry = <<files[ret[p].fileId]>>
        /\ ret[q].entry = ret[p].entry
        /\ storageCalls[ret[p].fileId] = 1

\* C8 (Spec).  Whatever the state Remove's Delete is taken in, a Get of the key
\* then finds nothing; when the key was not stored the map is unchanged; the
\* entries of all other keys, the lock registry and the mutexes are unchanged;
\* and Remove raises no error.
RemovalRule ==
    [][\A p \in Procs :
          (pc[p] = "remove_delete" /\ pc'[p] = "idle") =>
              LET k == fileId[p]
              IN /\ Load(files', k) = Nil
                 /\ k \notin DOMAIN files => files' = files
                 /\ \A j \in FileIds \ {k} : Load(files', j) = Load(files, j)
                 /\ fileLoadLocks' = fileLoadLocks
                 /\ locked' = locked
                 /\ ~ret'[p].err]_vars

\* C8 witness: Remove has returned for a key whose load is in flight (its lock is
\* registered and held) and the key is not stored, while the other caller's key
\* of an earlier call is none of its business.
RemovalWitness ==
    \E p, q \in Procs :
        /\ Returned(p, "Remove", fileId[q])
        /\ pc[q] = "glo_inflight"
        /\ fileId[q] \notin DOMAIN files
        /\ LockKey(fileId[q]) \in DOMAIN fileLoadLocks
        /\ locked # {}
        /\ removeCnt = 1

\* C9 (Spec).  At the end of a sweeper tick during which no caller took a step:
\* every entry stored when the tick began whose ExpireTime was before the time the
\* tick read for it is not stored, every other entry stored then is stored
\* unchanged, and expireCnt has grown by the number of entries deleted.
ExpirySweep ==
    [][(spc = "range" /\ spc' = "idle" /\ tickLog.alone) =>
          /\ \A k \in DOMAIN tickLog.start :
                /\ k \in DOMAIN tickLog.seenAt
                /\ IF tickLog.start[k].ExpireTime < tickLog.seenAt[k]
                   THEN k \notin DOMAIN files'
                   ELSE k \in DOMAIN files' /\ files'[k] = tickLog.start[k]
          /\ DOMAIN files' \subseteq DOMAIN tickLog.start
          /\ expireCnt' = tickLog.cnt0
                            + Cardinality(DOMAIN tickLog.start \ DOMAIN files')]_vars

\* C9 witness: a tick is over, it has deleted one entry (expireCnt = 1), and the
\* entry of the other key, whose ExpireTime is the current time, is still stored.
ExpirySweepWitness ==
    /\ spc = "idle"
    /\ ~tickPending
    /\ expireCnt = 1
    /\ \A p \in Procs : pc[p] = "idle"
    /\ \E p, q \in Procs :
          /\ p # q
          /\ ret[p].op = "Put" /\ ret[q].op = "Put"
          /\ ret[p].fileId # ret[q].fileId
          /\ ret[p].fileId \notin DOMAIN files
          /\ ret[q].fileId \in DOMAIN files
          /\ files[ret[q].fileId].ExpireTime = now

\* C10 (Spec).  A caller waiting for a key's load lock can take the lock unless a
\* caller of the same key holds it: callers of other keys, wherever they are, do
\* not disable it; and every other step of GetOrLoadIfAbsent is always enabled.
PerKeyLockGranularity ==
    \A p \in MainProcs :
        /\ (pc[p] = "glo_lock" /\ Holders(fileId[p]) = {}) => ENABLED GloLock(p)
        /\ pc[p] = "glo_load" => ENABLED GloLoad(p)
        /\ pc[p] = "glo_lockobj" => ENABLED GloLockObj(p)
        /\ pc[p] = "glo_check" => ENABLED GloCheck(p)
        /\ pc[p] = "glo_call" => ENABLED GloCall(p)
        /\ pc[p] = "glo_inflight" =>
               \A i \in Idents :
                   fileId[p] = GenFileId(i[1], i[2], i[3]) =>
                       \A o \in StorageOutcomes(i[1], i[2], i[3]) :
                           ENABLED GloStorageReturn(p, i[1], i[2], i[3], o)
        /\ pc[p] = "glo_store" => \A r \in Jitters : ENABLED GloStore(p, r)
        /\ pc[p] = "glo_unlock" => ENABLED GloUnlock(p)

\* C10 witness: storage calls are in flight for two different keys at once.
PerKeyLockWitness ==
    \E p, q \in Procs :
        /\ pc[p] = "glo_inflight"
        /\ pc[q] = "glo_inflight"
        /\ fileId[p] # fileId[q]
        /\ Cardinality(locked) = 2

\* C11 (Spec).  A Get is one step that begins and ends a call: it returns the
\* entry stored under the key, or nil when none is stored, without error, and
\* leaves the entries, the lock registry, the mutexes, the five counters and
\* every caller's position (so no storage call begins) unchanged.
GetIsPureLookup ==
    [][(nOps' = nOps + 1 /\ pc' = pc) =>
          /\ \E p \in Procs : \E i \in Idents :
                LET k == GenFileId(i[1], i[2], i[3])
                IN ret' = [ret EXCEPT
                              ![p] = [op |-> "Get", fileId |-> k, file |-> Nil,
                                      entry |-> IF k \in DOMAIN files
                                                THEN <<files[k]>> ELSE Nil,
                                      err |-> FALSE]]
          /\ files' = files
          /\ fileLoadLocks' = fileLoadLocks
          /\ locked' = locked
          /\ loadLock' = loadLock
          /\ <<putCnt, getCnt, loadCnt, removeCnt, expireCnt>>'
                = <<putCnt, getCnt, loadCnt, removeCnt, expireCnt>>]_vars

\* C11 witness: a Get has returned the entry a Put of the key stored; no counter
\* but putCnt has moved and no lock was registered.
GetIsPureLookupWitness ==
    \E p, q \in Procs :
        /\ ret[p].op = "Get"
        /\ ret[p].entry # Nil
        /\ ret[p].entry[1].Content \in Contents
        /\ ret[q].op = "Put"
        /\ ret[q].fileId = ret[p].fileId
        /\ getCnt = 0 /\ loadCnt = 0
        /\ fileLoadLocks = EmptyMap

\* C12 (Spec).  An entry leaves the map only by the Delete of a Remove of its
\* key, or by the sweeper's Delete when that entry's own ExpireTime has passed.
OnlyRemoveOrExpiryDestroys ==
    [][\A k \in DOMAIN files :
          k \notin DOMAIN files' =>
              \/ \E p \in Procs : /\ pc[p] = "remove_delete"
                                  /\ fileId[p] = k
                                  /\ pc'[p] = "idle"
              \/ /\ spc = "delete"
                 /\ curKey = <<k>>
                 /\ now > files[k].ExpireTime]_vars

\* C13 (Spec).  When GetOrLoadIfAbsent stores what it loaded, the key has no
\* entry; so the store never lowers the version of a positive entry of the key
\* and never replaces a positive entry by a negative one.
LoadNeverOverwrites ==
    [][\A p \in Procs :
          (pc[p] = "glo_store" /\ pc'[p] = "glo_unlock") =>
              LET k == fileId[p]
              IN /\ k \notin DOMAIN files
                 /\ (k \in DOMAIN files /\ ~files[k].Empty) =>
                        /\ ~files'[k].Empty
                        /\ files'[k].Version >= files[k].Version]_vars

\* C14 (SpecLoadFair).  The locked mutexes are exactly those of the callers
\* between Lock and Unlock, so none stays locked once its holder has returned;
\* and every GetOrLoadIfAbsent call that has begun eventually returns.
LockReleaseAndProgress ==
    /\ [](locked = {loadLock[p][1] : p \in {q \in Procs : pc[q] \in HoldingPcs}})
    /\ \A p \in Procs : (pc[p] # "idle") ~> (pc[p] = "idle")

\* C14 witness: two calls for one key have returned, the first through the
\* storage error exit and the other after a second storage call; the key's
\* mutex is registered and no mutex is locked.
LockReleaseWitness ==
    \E p, q \in Procs :
        /\ p # q
        /\ \A r \in Procs : pc[r] = "idle"
        /\ Returned(p, "GetOrLoadIfAbsent", ret[q].fileId)
        /\ ret[q].op = "GetOrLoadIfAbsent"
        /\ ret[p].err /\ ~ret[q].err
        /\ storageCalls[ret[p].fileId] = 2
        /\ LockKey(ret[p].fileId) \in DOMAIN fileLoadLocks
        /\ locked = {}

\* the positions of Put and Remove, and of a caller that is in no call
LockFreePcs == {"idle", "put_get", "put_store", "remove_delete"}

\* C15 (Spec).  Every step of Put, Get and Remove, and the first lookup of
\* GetOrLoadIfAbsent, is enabled whatever the other callers do, and these steps
\* (a first lookup that hits returns the entry at once) leave the lock registry
\* and the mutexes unchanged; the Lock of GetOrLoadIfAbsent is the only step that
\* can be disabled, and only while another caller of the same key is between
\* Lock and Unlock.
OnlyConfirmedMissBlocks ==
    /\ [](\A p \in MainProcs :
            /\ pc[p] = "put_get" => ENABLED PutGet(p)
            /\ pc[p] = "put_store" => \A r \in Jitters : ENABLED PutStore(p, r)
            /\ pc[p] = "remove_delete" => ENABLED RemoveDelete(p)
            /\ pc[p] = "glo_load" => ENABLED GloLoad(p)
            /\ (pc[p] = "idle" /\ nOps < MaxOps) =>
                   /\ \A i \in Idents : ENABLED GetCall(p, i[1], i[2], i[3])
                   /\ \A i \in Idents : ENABLED RemoveBegin(p, i[1], i[2], i[3])
                   /\ \A i \in Idents : ENABLED GloBegin(p, i[1], i[2], i[3])
                   /\ \A f \in FileReleases : ENABLED (PutBegin(p, f) /\ UNCHANGED submitted)
            /\ pc[p] = "glo_lockobj" => ENABLED GloLockObj(p)
            /\ pc[p] = "glo_check" => ENABLED GloCheck(p)
            /\ pc[p] = "glo_call" => ENABLED (GloCall(p) /\ UNCHANGED storageCalls)
            /\ pc[p] = "glo_inflight" =>
                   \E i \in Idents : \A o \in StorageOutcomes(i[1], i[2], i[3]) :
                       ENABLED (GloStorageReturn(p, i[1], i[2], i[3], o)
                                    /\ UNCHANGED storageErrs)
            /\ pc[p] = "glo_store" => \A r \in Jitters : ENABLED GloStore(p, r)
            /\ pc[p] = "glo_unlock" => ENABLED GloUnlock(p)
            /\ (pc[p] = "glo_lock" /\ ~ENABLED GloLock(p)) =>
                   \E q \in Procs \ {p} : /\ pc[q] \in HoldingPcs
                                          /\ fileId[q] = fileId[p])
    /\ [][\A p \in Procs :
             (<<pc[p], ret[p], tmp[p], storedEntry[p]>>'
                    # <<pc[p], ret[p], tmp[p], storedEntry[p]>>) =>
                 /\ pc[p] \in LockFreePcs =>
                        (fileLoadLocks' = fileLoadLocks /\ locked' = locked)
                 /\ (pc[p] = "glo_load" /\ fileId[p] \in DOMAIN files) =>
                        /\ fileLoadLocks' = fileLoadLocks /\ locked' = locked
                        /\ pc'[p] = "idle"
                        /\ ret'[p].entry = <<files[fileId[p]]>>
                        /\ ~ret'[p].err]_vars

\* C15 witness: a Put of key K has stored its entry and returned while another
\* caller holds K's lock with its storage call in flight.
OnlyConfirmedMissWitness ==
    \E p, q \in Procs :
        /\ pc[p] = "glo_inflight"
        /\ loadLock[p][1] \in locked
        /\ Returned(q, "Put", fileId[p])
        /\ fileId[p] \in DOMAIN files
        /\ putCnt = 1

\* C16 (Spec).  A lookup of a key whose stored entry has an ExpireTime in the
\* past finds that entry: Get returns it, the first lookup of GetOrLoadIfAbsent
\* returns it with no error and no storage call, and so does the double check.
ExpiredStaysVisible ==
    [][/\ (nOps' = nOps + 1 /\ pc' = pc) =>
             \E p \in Procs :
                 /\ ret' = [ret EXCEPT ![p] = ret'[p]]
                 /\ ret'[p].op = "Get"
                 /\ \A k \in DOMAIN files :
                        (ret'[p].fileId = k /\ now > files[k].ExpireTime) =>
                            ret'[p].entry = <<files[k]>>
       /\ \A p \in Procs :
             LET k == fileId[p]
                 stale == k \in DOMAIN files /\ now > files[k].ExpireTime
             IN /\ (pc[p] = "glo_load" /\ pc'[p] # "glo_load" /\ stale) =>
                       /\ pc'[p] = "idle"
                       /\ ret'[p] = [op |-> "GetOrLoadIfAbsent", fileId |-> k, file |-> Nil,
                                     entry |-> <<files[k]>>, err |-> FALSE]
                       /\ loadCnt' = loadCnt
                /\ (pc[p] = "glo_check" /\ pc'[p] # "glo_check" /\ stale) =>
                       /\ pc'[p] = "glo_unlock"
                       /\ storedEntry'[p] = <<files[k]>>
                       /\ ~loadErr'[p]
                       /\ loadCnt' = loadCnt /\ tmp'[p] = tmp[p]]_vars

\* C16 witness: GetOrLoadIfAbsent has returned, without a storage call, the entry
\* a Put stored; its ExpireTime is in the past and it is still stored.
ExpiredStaysVisibleWitness ==
    \E p \in Procs :
        /\ ret[p].op = "GetOrLoadIfAbsent"
        /\ ~ret[p].err
        /\ ret[p].entry # Nil
        /\ now > ret[p].entry[1].ExpireTime
        /\ ret[p].fileId \in DOMAIN files
        /\ files[ret[p].fileId] = ret[p].entry[1]
        /\ loadCnt = 0
        /\ getCnt = 1

\* C17 (SpecPut: concurrent Put calls only).  Once all calls have returned,
\* putCnt is the number of Put calls made, and the counters of the calls that
\* were never made (getCnt, loadCnt, removeCnt, expireCnt) are 0.
CountersExact ==
    (\A p \in Procs : pc[p] = "idle") =>
        /\ putCnt = nOps
        /\ getCnt = 0 /\ loadCnt = 0 /\ removeCnt = 0 /\ expireCnt = 0

\* C18 (Spec).  Every entry a step stores (by an accepted Put or by a load, a
\* record's entry or the empty object) has an ExpireTime of the time it is built
\* at plus d seconds with 3600 <= d < 4200, and so has every expiry time that
\* getExpireTime can compute at that time, whatever rand.Intn(600) yields.
JitteredExpiryBounds ==
    [][\A k \in DOMAIN files' :
          (k \notin DOMAIN files \/ files'[k] # files[k]) =>
              /\ files'[k].ExpireTime - now >= BaseExpireTimeAfterWrite
              /\ files'[k].ExpireTime - now < BaseExpireTimeAfterWrite + JitterRange
              /\ files'[k].ExpireTime - now >= 3600
              /\ files'[k].ExpireTime - now < 4200
              /\ files'[k].ExpireTime > now
              /\ \A r \in 0..(JitterRange - 1) :
                     /\ getExpireTime(now, r) - now >= 3600
                     /\ getExpireTime(now, r) - now < 4200]_vars

\* C18 witness: an empty object stored by a load with the highest jitter and a
\* record's entry stored by a Put with the lowest, both built at the current time.
JitteredExpiryWitness ==
    \E k, j \in DOMAIN files :
        /\ files[k].Empty
        /\ files[k].ExpireTime = now + BaseExpireTimeAfterWrite + JitterRange - 1
        /\ ~files[j].Empty
        /\ files[j].ExpireTime = now + BaseExpireTimeAfterWrite
        /\ putCnt = 1 /\ loadCnt = 1

\* no part of the release's identity contains the separator
SeparatorFree(f) ==
    \A part \in {f.Namespace, f.Group, f.FileName} :
        \A i \in 1..Len(part) : part[i] # FileIdSeparator[1]

IdentityOf(f) == <<f.Namespace, f.Group, f.FileName>>

\* the releases of the Put calls in progress or returned, with the key computed
\* for each
KeyedPuts ==
    {<<file[p][1], fileId[p]>> : p \in {q \in Procs : file[q] # Nil /\ pc[q] # "idle"}}
    \cup {<<ret[p].file[1], ret[p].fileId>> : p \in {q \in Procs : ret[q].op = "Put"}}

\* C19 (SpecKey).  Two Put calls whose identities contain no separator have the
\* same key (and so the same lock key) only if the identities are equal; when
\* both have returned with different identities, each one's key is stored: none
\* has taken the other's place in the map.
KeyInjectivity ==
    \A a, b \in KeyedPuts :
        (SeparatorFree(a[1]) /\ SeparatorFree(b[1])) =>
            /\ a[2] = GenFileId(a[1].Namespace, a[1].Group, a[1].FileName)
            /\ (a[2] = b[2] \/ LockKey(a[2]) = LockKey(b[2])) =>
                   IdentityOf(a[1]) = IdentityOf(b[1])
            /\ (IdentityOf(a[1]) # IdentityOf(b[1])
                   /\ \A p \in Procs : pc[p] = "idle") =>
                   /\ a[2] \in DOMAIN files /\ b[2] \in DOMAIN files
                   /\ Cardinality(DOMAIN files) = 2

\* C19 witness: two Put calls have returned whose identities contain no separator
\* and differ only in where the parts end (the same characters in all); each
\* key is stored.
KeyInjectivityWitness ==
    \E p, q \in Procs :
        /\ ret[p].op = "Put" /\ ret[q].op = "Put"
        /\ SeparatorFree(ret[p].file[1]) /\ SeparatorFree(ret[q].file[1])
        /\ IdentityOf(ret[p].file[1]) # IdentityOf(ret[q].file[1])
        /\ ret[p].file[1].Namespace \o ret[p].file[1].Group \o ret[p].file[1].FileName
             = ret[q].file[1].Namespace \o ret[q].file[1].Group \o ret[q].file[1].FileName
        /\ ret[p].fileId # ret[q].fileId
        /\ {ret[p].fileId, ret[q].fileId} \subseteq DOMAIN files

\* C20 (Spec).  No step removes or replaces a registered lock object, and the
\* lock object a caller of GetOrLoadIfAbsent holds is the one registered for its
\* key, so all callers of a key have the identical object.
LockRegistryGrowOnly ==
    /\ [][\A k \in DOMAIN fileLoadLocks :
             /\ k \in DOMAIN fileLoadLocks'
             /\ fileLoadLocks'[k] = fileLoadLocks[k]]_vars
    /\ [](\A p \in Procs :
            loadLock[p] # Nil =>
                /\ LockKey(fileId[p]) \in DOMAIN fileLoadLocks
                /\ loadLock[p][1] = fileLoadLocks[LockKey(fileId[p])]
                /\ \A q \in Procs :
                       (loadLock[q] # Nil /\ fileId[q] = fileId[p]) =>
                           loadLock[q] = loadLock[p])

\* C20 witness: two callers missed on the same key and both registered before
\* either took the lock; they hold the same object, the only one registered.
LockRegistryWitness ==
    \E p, q \in Procs :
        /\ p # q
        /\ pc[p] = "glo_lock" /\ pc[q] = "glo_lock"
        /\ fileId[p] = fileId[q]
        /\ loadLock[p] = loadLock[q]
        /\ loadLock[p] # Nil
        /\ DOMAIN fileLoadLocks = {LockKey(fileId[p])}

====
